---- MODULE Spec2Model ----
(***************************************************************************)
(* Model of package summstat: the Stats accumulator (NewStats, AddSample,  *)
(* the aggregate queries, Percentile, Median, CreateBins,                  *)
(* CreateBinsDiscard, Bin).                                                *)
(*                                                                         *)
(* Sample is float64 in the source.  Here a number is an exact fraction    *)
(* [num, den] in lowest terms with den > 0; the samples fed to the         *)
(* accumulator are small integers, for which the float64 operations the    *)
(* code performs on them (sums, products, halving, the percentile index,   *)
(* a difference divided by nbins-2 and then multiplied back) give the same *)
(* comparisons and the same values at the points the properties read.      *)
(* 0/0 stands for NaN, the result of the zero-count division in Mean.      *)
(***************************************************************************)
EXTENDS Integers, Sequences, FiniteSets, TLC

\* ------------------------------------------------------------------ bounds
\* No more than MaxAdds samples are added in one behaviour.
MaxAdds == 4
\* CreateBins and CreateBinsDiscard are called with nbins in 2..MaxBins.
MaxBins == 4

\* The samples passed to AddSample.
Vals == { 0, 1, 2 }
NBins == 2 .. MaxBins

\* ----------------------------------------------------------------- numbers
Abs(n) == IF n < 0 THEN -n ELSE n

RECURSIVE GCD(_, _)
GCD(a, b) == IF b = 0 THEN a ELSE GCD(b, a % b)

\* The fraction n/d (d > 0) in lowest terms; a zero denominator arises only from
\* an operand that is NaN, and the result is NaN.
Frac(n, d) ==
    IF d = 0 THEN [num |-> 0, den |-> 0]
    ELSE LET g == GCD(Abs(n), d)
         IN  [num |-> n \div g, den |-> d \div g]

\* The integer n as a Sample.
R(n) == [num |-> n, den |-> 1]

NaN == [num |-> 0, den |-> 0]

RAdd(a, b) == Frac(a.num * b.den + b.num * a.den, a.den * b.den)
RSub(a, b) == Frac(a.num * b.den - b.num * a.den, a.den * b.den)
RMul(a, b) == Frac(a.num * b.num, a.den * b.den)
\* a / b in float64: 0/0 is NaN.
RDiv(a, b) ==
    IF b.num = 0 THEN NaN
    ELSE IF b.num > 0 THEN Frac(a.num * b.den, a.den * b.num)
    ELSE Frac(-(a.num * b.den), a.den * (-b.num))
RLt(a, b) == a.num * b.den < b.num * a.den
RLe(a, b) == a.num * b.den <= b.num * a.den

\* Go's int(x) of a float64: truncation toward zero.
Trunc(r) ==
    IF r.num >= 0 THEN r.num \div r.den ELSE -((-r.num) \div r.den)

\* math.MaxFloat64: a finite value above every sample and every sum of the model.
MaxFloat64 == [num |-> 1000000, den |-> 1]
NegMaxFloat64 == [num |-> -1000000, den |-> 1]

\* ------------------------------------------------------------- call inputs
\* pct arguments of Percentile: below 0, the ends, rounding ties, above 1.
PctSet ==
    { Frac(-1, 4), R(0), Frac(1, 4), Frac(1, 2), Frac(3, 4), R(1), Frac(5, 4) }
\* discardPct arguments of CreateBinsDiscard (1/discardPct is 4, 8/3, 2, 1, 4/5).
DiscardSet ==
    { Frac(1, 4), Frac(3, 8), Frac(1, 2), R(1), Frac(5, 4) }
\* low and high arguments of CreateBins.
EdgeSet == { R(1), R(2) }
\* index arguments of Bin.
BinIndexes == -1 .. MaxBins

\* ------------------------------------------------------------------- state
VARIABLES
    count,      \* Stats.count
    sum,        \* Stats.sum
    sum2,       \* Stats.sum2
    max,        \* Stats.max
    min,        \* Stats.min
    samples,    \* Stats.samples
    sorted,     \* Stats.sorted
    bins,       \* Stats.bins
    binCounts,  \* Stats.binCounts
    added,      \* history: every value passed to AddSample, kept ascending
    binnedAt,   \* history: count at the latest successful bin creation, -1 before
    last        \* history: the last call, its arguments and its outcome

stats == <<count, sum, sum2, max, min, samples, sorted, bins, binCounts>>
hist == <<added, binnedAt>>
vars == <<count, sum, sum2, max, min, samples, sorted, bins, binCounts, hist, last>>

\* The record of a call: err is "none" when the call returned, else the class of
\* its panic; ret is the returned value ("none" when there is none).
Call(op, args, err, ret) == [op |-> op, args |-> args, err |-> err, ret |-> ret]

\* NewStats returning the zero value of Stats: no sentinels in min and max.
InitZeroValue ==
    /\ count = 0
    /\ sum = R(0)
    /\ sum2 = R(0)
    /\ max = R(0)
    /\ min = R(0)
    /\ samples = <<>>
    /\ sorted = FALSE
    /\ bins = <<>>
    /\ binCounts = <<>>
    /\ added = <<>>
    /\ binnedAt = -1
    /\ last = Call("NewStats", <<>>, "none", "none")

\* NewStats
Init ==
    /\ count = 0
    /\ sum = R(0)
    /\ sum2 = R(0)
    /\ max = NegMaxFloat64
    /\ min = MaxFloat64
    /\ samples = <<>>
    /\ sorted = FALSE
    /\ bins = <<>>
    /\ binCounts = <<>>
    /\ added = <<>>
    /\ binnedAt = -1
    /\ last = Call("NewStats", <<>>, "none", "none")

\* ------------------------------------------------------------------ sorting
\* sampleSlice.Less
Less(a, b) == RLt(a, b)

RECURSIVE InsertSorted(_, _)
InsertSorted(seq, x) ==
    IF seq = <<>> THEN <<x>>
    ELSE IF Less(x, Head(seq)) THEN <<x>> \o seq
    ELSE <<Head(seq)>> \o InsertSorted(Tail(seq), x)

\* sort.Sort(sampleSlice(s.samples)): the samples in ascending order.
RECURSIVE SortAsc(_)
SortAsc(seq) ==
    IF seq = <<>> THEN <<>> ELSE InsertSorted(SortAsc(Tail(seq)), Head(seq))

\* sortSamples, as Percentile and Median run it: on their copy of the Stats, whose
\* samples slice shares its array with the caller's.  The array is sorted in place
\* unless the copied flag is already set; the flag the method sets is the copy's.
sortSamples(smp) == IF sorted THEN smp ELSE SortAsc(smp)

\* ---------------------------------------------------------------- AddSample
\* The range loop of AddSample: the first bin whose threshold is >= val, 0 if none.
RECURSIVE FindBinFrom(_, _, _)
FindBinFrom(bs, val, i) ==
    IF i > Len(bs) THEN 0
    ELSE IF RLe(val, bs[i]) THEN i
    ELSE FindBinFrom(bs, val, i + 1)

\* The loop testing val < binVal: a value equal to a threshold goes one bin up.
RECURSIVE FindBinStrictFrom(_, _, _)
FindBinStrictFrom(bs, val, i) ==
    IF i > Len(bs) THEN 0
    ELSE IF RLt(val, bs[i]) THEN i
    ELSE FindBinStrictFrom(bs, val, i + 1)

FindBinStrict(bs, val) == FindBinStrictFrom(bs, val, 1)

FindBin(bs, val) == FindBinFrom(bs, val, 1)

AddSample(val) ==
    /\ count < MaxAdds
    /\ count' = count + 1
    /\ sum' = RAdd(sum, val)
    /\ sum2' = RAdd(sum2, RMul(val, val))
    /\ max' = IF RLt(max, val) THEN val ELSE max
    /\ min' = IF RLt(val, min) THEN val ELSE min
    /\ IF Len(bins) > 0
       THEN /\ binCounts' =
                 LET b == FindBin(bins, val)
                 IN  IF b = 0 THEN binCounts
                     ELSE [binCounts EXCEPT ![b] = binCounts[b] + 1]
            /\ UNCHANGED <<samples, sorted>>
       ELSE /\ samples' = Append(samples, val)
            /\ sorted' = FALSE
            /\ UNCHANGED binCounts
    /\ UNCHANGED bins
    /\ added' = InsertSorted(added, val)
    /\ UNCHANGED binnedAt
    /\ last' = Call("AddSample", <<val>>, "none", "none")

\* -------------------------------------------------------- aggregate queries
\* Count answering with the number of retained samples.
CountRetained == Len(samples)

\* Spread without the min > max test.
SpreadUnguarded == RSub(max, min)

CountValue == count
MinValue == IF RLt(max, min) THEN R(0) ELSE min
MaxValue == IF RLt(max, min) THEN R(0) ELSE max
SpreadValue == IF RLt(max, min) THEN R(0) ELSE RSub(max, min)
MeanValue == RDiv(sum, R(count))

\* math.Sqrt(x), kept as the root of x: NaN for NaN, else the number whose square
\* is x.
Sqrt(x) == IF x = NaN THEN NaN ELSE [sqrtOf |-> x]

\* Stddev dividing by count-1 (the sample, not the population, deviation).
StddevSample ==
    LET m == MeanValue
    IN  Sqrt(RSub(RDiv(sum2, R(count - 1)), RMul(m, m)))

\* math.Sqrt(float64(s.sum2)/float64(s.count) - m*m)
StddevValue ==
    LET m == MeanValue
    IN  Sqrt(RSub(RDiv(sum2, R(count)), RMul(m, m)))

Count ==
    /\ last' = Call("Count", <<>>, "none", CountValue)
    /\ UNCHANGED <<stats, hist>>

Min ==
    /\ last' = Call("Min", <<>>, "none", MinValue)
    /\ UNCHANGED <<stats, hist>>

Max ==
    /\ last' = Call("Max", <<>>, "none", MaxValue)
    /\ UNCHANGED <<stats, hist>>

Spread ==
    /\ last' = Call("Spread", <<>>, "none", SpreadValue)
    /\ UNCHANGED <<stats, hist>>

Mean ==
    /\ last' = Call("Mean", <<>>, "none", MeanValue)
    /\ UNCHANGED <<stats, hist>>

Stddev ==
    /\ last' = Call("Stddev", <<>>, "none", StddevValue)
    /\ UNCHANGED <<stats, hist>>

\* ---------------------------------------------------------- order statistics
\* The index without the + 0.5: int() floors instead of rounding.
PercentileIndexFloor(n, pct) == Trunc(RMul(R(n - 1), pct))

\* int(float64(len(s.samples)-1)*pct + 0.5)
PercentileIndex(n, pct) == Trunc(RAdd(RMul(R(n - 1), pct), Frac(1, 2)))

\* Percentile testing for no samples before it tests for bins.
PercentileEmptyFirst(smp, pct) ==
    IF Len(smp) = 0
    THEN [err |-> "none", ret |-> R(0), samples |-> smp]
    ELSE IF Len(bins) > 0
    THEN [err |-> "IllegalState", ret |-> "none", samples |-> smp]
    ELSE IF RLt(pct, R(0)) \/ RLt(R(1), pct)
    THEN [err |-> "InvalidArgument", ret |-> "none", samples |-> smp]
    ELSE LET s == sortSamples(smp)
         IN  [err |-> "none", ret |-> s[PercentileIndex(Len(smp), pct) + 1], samples |-> s]

\* Percentile(pct) run on retained samples smp: its outcome, and the shared sample
\* array as the call leaves it.
PercentileResult(smp, pct) ==
    IF Len(bins) > 0
    THEN [err |-> "IllegalState", ret |-> "none", samples |-> smp]
    ELSE IF Len(smp) = 0
    THEN [err |-> "none", ret |-> R(0), samples |-> smp]
    ELSE IF RLt(pct, R(0)) \/ RLt(R(1), pct)
    THEN [err |-> "InvalidArgument", ret |-> "none", samples |-> smp]
    ELSE LET s == sortSamples(smp)
         IN  [err |-> "none", ret |-> s[PercentileIndex(Len(smp), pct) + 1], samples |-> s]

Percentile(pct) ==
    \E r \in { PercentileResult(samples, pct) } :
        /\ samples' = r.samples
        /\ last' = Call("Percentile", <<pct>>, r.err, r.ret)
        /\ UNCHANGED <<count, sum, sum2, max, min, sorted, bins, binCounts, hist>>

\* Median reading the samples without sorting them.
MedianUnsorted(smp) ==
    IF Len(bins) > 0
    THEN [err |-> "IllegalState", ret |-> "none", samples |-> smp]
    ELSE IF Len(smp) = 0
    THEN [err |-> "none", ret |-> R(0), samples |-> smp]
    ELSE LET l == Len(smp)
             half == l \div 2
             rem == l % 2
         IN  [err |-> "none",
              ret |-> IF rem = 0
                      THEN RDiv(RAdd(smp[half + 1], smp[half]), R(2))
                      ELSE smp[half + 1],
              samples |-> smp]

MedianResult(smp) ==
    IF Len(bins) > 0
    THEN [err |-> "IllegalState", ret |-> "none", samples |-> smp]
    ELSE IF Len(smp) = 0
    THEN [err |-> "none", ret |-> R(0), samples |-> smp]
    ELSE LET s == sortSamples(smp)
             l == Len(smp)
             half == l \div 2
             rem == l % 2
         IN  [err |-> "none",
              ret |-> IF rem = 0
                      THEN RDiv(RAdd(s[half + 1], s[half]), R(2))
                      ELSE s[half + 1],
              samples |-> s]

Median ==
    \E r \in { MedianResult(samples) } :
        /\ samples' = r.samples
        /\ last' = Call("Median", <<>>, r.err, r.ret)
        /\ UNCHANGED <<count, sum, sum2, max, min, sorted, bins, binCounts, hist>>

\* ------------------------------------------------------------------ binning
\* The threshold loop stopping one short (i < nbins-2): the slot of high keeps the
\* zero make() put there.
ThresholdsShortLoop(nbins, low, high) ==
    LET spread == RSub(high, low)
    IN  [i \in 1 .. nbins |->
            IF i < nbins - 1
            THEN RAdd(RDiv(RMul(R(i - 1), spread), R(nbins - 2)), low)
            ELSE IF i = nbins - 1 THEN R(0)
            ELSE MaxFloat64]

\* The thresholds CreateBins builds: Sample(i)*spread/Sample(nbins-2) + low for
\* i < nbins-1, then math.MaxFloat64.
Thresholds(nbins, low, high) ==
    LET spread == RSub(high, low)
    IN  [i \in 1 .. nbins |->
            IF i < nbins
            THEN RAdd(RDiv(RMul(R(i - 1), spread), R(nbins - 2)), low)
            ELSE MaxFloat64]

\* CreateBins testing high < low, so that high = low is accepted.
CreateBinsAcceptEqual(smp, nbins, low, high) ==
    IF RLt(high, low)
    THEN [err |-> "InvalidArgument", bins |-> bins, binCounts |-> binCounts, samples |-> smp]
    ELSE IF nbins < 3
    THEN [err |-> "InvalidArgument", bins |-> bins, binCounts |-> binCounts, samples |-> smp]
    ELSE [err |-> "none",
          bins |-> [i \in 1 .. nbins |->
                      IF i < nbins
                      THEN RAdd(RDiv(RMul(R(i - 1), RSub(high, low)), R(nbins - 2)), low)
                      ELSE MaxFloat64],
          binCounts |-> [i \in 1 .. nbins |-> 0],
          samples |-> <<>>]

\* CreateBins keeping the old counts when the number of bins does not change.
CreateBinsKeepCounts(smp, nbins, low, high) ==
    IF RLe(high, low) \/ nbins < 3
    THEN [err |-> "InvalidArgument", bins |-> bins, binCounts |-> binCounts, samples |-> smp]
    ELSE [err |-> "none",
          bins |-> Thresholds(nbins, low, high),
          binCounts |-> IF Len(binCounts) = nbins THEN binCounts
                        ELSE [i \in 1 .. nbins |-> 0],
          samples |-> <<>>]

\* CreateBins dropping the bins before it validates its arguments.
CreateBinsResetOnFailure(smp, nbins, low, high) ==
    IF RLe(high, low) \/ nbins < 3
    THEN [err |-> "InvalidArgument", bins |-> <<>>, binCounts |-> <<>>, samples |-> smp]
    ELSE [err |-> "none",
          bins |-> Thresholds(nbins, low, high),
          binCounts |-> [i \in 1 .. nbins |-> 0],
          samples |-> <<>>]

\* CreateBins without its last statement: the samples stay.
CreateBinsKeepSamples(smp, nbins, low, high) ==
    IF RLe(high, low) \/ nbins < 3
    THEN [err |-> "InvalidArgument", bins |-> bins, binCounts |-> binCounts, samples |-> smp]
    ELSE [err |-> "none",
          bins |-> Thresholds(nbins, low, high),
          binCounts |-> [i \in 1 .. nbins |-> 0],
          samples |-> smp]

\* CreateBins testing nbins < 2.
CreateBinsAllowTwo(smp, nbins, low, high) ==
    IF RLe(high, low) \/ nbins < 2
    THEN [err |-> "InvalidArgument", bins |-> bins, binCounts |-> binCounts, samples |-> smp]
    ELSE [err |-> "none",
          bins |-> Thresholds(nbins, low, high),
          binCounts |-> [i \in 1 .. nbins |-> 0],
          samples |-> <<>>]

\* CreateBins discarding the samples before it validates its arguments.
CreateBinsClearsEarly(smp, nbins, low, high) ==
    IF RLe(high, low) \/ nbins < 3
    THEN [err |-> "InvalidArgument", bins |-> bins, binCounts |-> binCounts, samples |-> <<>>]
    ELSE [err |-> "none",
          bins |-> Thresholds(nbins, low, high),
          binCounts |-> [i \in 1 .. nbins |-> 0],
          samples |-> <<>>]

\* CreateBins(nbins, low, high) with retained samples smp: its outcome and the
\* bins, binCounts and samples it leaves.
CreateBinsResult(smp, nbins, low, high) ==
    IF RLe(high, low)
    THEN [err |-> "InvalidArgument", bins |-> bins, binCounts |-> binCounts, samples |-> smp]
    ELSE IF nbins < 3
    THEN [err |-> "InvalidArgument", bins |-> bins, binCounts |-> binCounts, samples |-> smp]
    ELSE [err |-> "none",
          bins |-> Thresholds(nbins, low, high),
          binCounts |-> [i \in 1 .. nbins |-> 0],
          samples |-> <<>>]

CreateBins(nbins, low, high) ==
    \E r \in { CreateBinsResult(samples, nbins, low, high) } :
        /\ bins' = r.bins
        /\ binCounts' = r.binCounts
        /\ samples' = r.samples
        /\ last' = Call("CreateBins", <<nbins, low, high>>, r.err, "none")
        /\ binnedAt' = IF r.err = "none" THEN count ELSE binnedAt
        /\ UNCHANGED <<count, sum, sum2, max, min, sorted, added>>

\* int(1.0/discardPct)
MinSamples(discardPct) == Trunc(RDiv(R(1), discardPct))

\* CreateBinsDiscard passing Percentile(discardPct) for low and for high.
CreateBinsDiscardSamePct(smp, nbins, discardPct) ==
    IF Len(smp) < MinSamples(discardPct)
    THEN [err |-> "IllegalState", bins |-> bins, binCounts |-> binCounts, samples |-> smp]
    ELSE LET lo == PercentileResult(smp, discardPct)
         IN  IF lo.err # "none"
             THEN [err |-> lo.err, bins |-> bins, binCounts |-> binCounts,
                   samples |-> lo.samples]
             ELSE CreateBinsResult(lo.samples, nbins, lo.ret, lo.ret)

\* CreateBinsDiscard: the length check, then the two Percentile calls (left to
\* right, each sorting the shared array), then CreateBins; a panic of any of them
\* ends the call where it happens.
CreateBinsDiscardResult(smp, nbins, discardPct) ==
    IF Len(smp) < MinSamples(discardPct)
    THEN [err |-> "IllegalState", bins |-> bins, binCounts |-> binCounts, samples |-> smp]
    ELSE LET lo == PercentileResult(smp, discardPct)
         IN  IF lo.err # "none"
             THEN [err |-> lo.err, bins |-> bins, binCounts |-> binCounts,
                   samples |-> lo.samples]
             ELSE LET hi == PercentileResult(lo.samples, RSub(R(1), discardPct))
                  IN  IF hi.err # "none"
                      THEN [err |-> hi.err, bins |-> bins, binCounts |-> binCounts,
                            samples |-> hi.samples]
                      ELSE CreateBinsResult(hi.samples, nbins, lo.ret, hi.ret)

CreateBinsDiscard(nbins, discardPct) ==
    \E r \in { CreateBinsDiscardResult(samples, nbins, discardPct) } :
        /\ bins' = r.bins
        /\ binCounts' = r.binCounts
        /\ samples' = r.samples
        /\ last' = Call("CreateBinsDiscard", <<nbins, discardPct>>, r.err, "none")
        /\ binnedAt' = IF r.err = "none" THEN count ELSE binnedAt
        /\ UNCHANGED <<count, sum, sum2, max, min, sorted, added>>

\* Bin taking s.bins[i] for low as well as for high.
BinLowIsOwnThreshold(i) ==
    IF i < 0 \/ i >= Len(binCounts) \/ i >= Len(bins)
    THEN [err |-> "IndexOutOfRange", ret |-> "none"]
    ELSE [err |-> "none",
          ret |-> [count |-> binCounts[i + 1],
                   low |-> IF i = 0 THEN NegMaxFloat64 ELSE bins[i + 1],
                   high |-> bins[i + 1]]]

\* Bin(i): indexing binCounts or bins out of range is a run-time panic.
BinResult(i) ==
    IF i < 0 \/ i >= Len(binCounts) \/ i >= Len(bins)
    THEN [err |-> "IndexOutOfRange", ret |-> "none"]
    ELSE [err |-> "none",
          ret |-> [count |-> binCounts[i + 1],
                   low |-> IF i = 0 THEN NegMaxFloat64 ELSE bins[i],
                   high |-> bins[i + 1]]]

Bin(i) ==
    \E r \in { BinResult(i) } :
        /\ last' = Call("Bin", <<i>>, r.err, r.ret)
        /\ UNCHANGED <<stats, hist>>

\* ------------------------------------------------------------ specification
Next ==
    \/ \E v \in Vals : AddSample(R(v))
    \/ Count
    \/ Min
    \/ Max
    \/ Spread
    \/ Mean
    \/ Stddev
    \/ \E pct \in PctSet : Percentile(pct)
    \/ Median
    \/ \E nbins \in NBins, low \in EdgeSet, high \in EdgeSet : CreateBins(nbins, low, high)
    \/ \E nbins \in NBins, d \in DiscardSet : CreateBinsDiscard(nbins, d)
    \/ \E i \in BinIndexes : Bin(i)

Spec == Init /\ [][Next]_vars

\* ------------------------------------------------- vocabulary of the properties
Elems(s) == { s[j] : j \in 1 .. Len(s) }
CountLt(s, x) == Cardinality({ j \in 1 .. Len(s) : RLt(s[j], x) })
CountLe(s, x) == Cardinality({ j \in 1 .. Len(s) : RLe(s[j], x) })
\* x is the element at 0-based index k of s arranged in ascending order.
IsOrderStat(s, k, x) == x \in Elems(s) /\ CountLt(s, x) <= k /\ k < CountLe(s, x)
\* s and t hold the same values the same number of times.
SameBag(s, t) ==
    /\ Len(s) = Len(t)
    /\ \A x \in Elems(s) \cup Elems(t) :
          Cardinality({ j \in 1 .. Len(s) : s[j] = x })
              = Cardinality({ j \in 1 .. Len(t) : t[j] = x })
\* floor((n-1)*p + 1/2) for p >= 0.
NearestRank(n, p) == (2 * (n - 1) * p.num + p.den) \div (2 * p.den)
InUnit(p) == RLe(R(0), p) /\ RLe(p, R(1))
\* ceil(1/d) for d > 0.
CeilInverse(d) == (d.den + d.num - 1) \div d.num
BinTotal == IF Len(binCounts) = 0 THEN 0 ELSE
    LET S[i \in 0 .. Len(binCounts)] == IF i = 0 THEN 0 ELSE S[i - 1] + binCounts[i]
    IN  S[Len(binCounts)]

\* ------------------------------------------------------------------ claims
\* C1: Count() equals the number of AddSample calls made so far, in exact and in
\* binned mode alike; the count field never differs from that number, so no
\* CreateBins, CreateBinsDiscard or query call changes it.
C1_CountIsNumberOfAdds ==
    /\ count = Len(added)
    /\ last.op = "Count" => last.err = "none" /\ last.ret = Len(added)

\* Count() called in binned mode, with samples added before and after the switch.
C1_Witness ==
    /\ last.op = "Count"
    /\ Len(bins) > 0
    /\ BinTotal > 0
    /\ BinTotal < count

C3_PercentileNearestRank ==
    (last.op = "Percentile" /\ Len(bins) = 0 /\ Len(samples) >= 1 /\ InUnit(last.args[1])) =>
        /\ last.err = "none"
        /\ IsOrderStat(samples, NearestRank(Len(samples), last.args[1]), last.ret)
        /\ last.args[1] = R(0) => last.ret = MinValue
        /\ last.args[1] = R(1) => last.ret = MaxValue

\* Percentile(0.5) of two different samples: the tie is rounded up to the larger.
C3_Witness ==
    /\ last.op = "Percentile"
    /\ last.args[1] = Frac(1, 2)
    /\ Len(bins) = 0
    /\ Len(samples) = 2
    /\ RLt(MinValue, MaxValue)
    /\ last.ret = MaxValue

\* C4 (as claimed): in exact mode Percentile(p) with p < 0 or p > 1 fails with
\* InvalidArgument, for any number of retained samples, zero included.
C4_OutOfRangeAlwaysFails ==
    (last.op = "Percentile" /\ Len(bins) = 0 /\ ~InUnit(last.args[1])) =>
        last.err = "InvalidArgument"

\* C5: in exact mode Median() returns 0 with no samples held; otherwise, with a the
\* retained samples in ascending order and n their number, a[n/2] for odd n and
\* (a[n/2] + a[n/2 - 1]) / 2 for even n.
C5_Median ==
    (last.op = "Median" /\ Len(bins) = 0) =>
        LET n == Len(samples)
        IN  /\ last.err = "none"
            /\ n = 0 => last.ret = R(0)
            /\ (n > 0 /\ n % 2 = 1) => IsOrderStat(samples, n \div 2, last.ret)
            /\ (n > 0 /\ n % 2 = 0) =>
                  \E lo \in Elems(samples), hi \in Elems(samples) :
                      /\ IsOrderStat(samples, n \div 2 - 1, lo)
                      /\ IsOrderStat(samples, n \div 2, hi)
                      /\ RMul(last.ret, R(2)) = RAdd(lo, hi)

\* Median() of an even number of samples whose two middle values differ; the
\* result lies strictly between them and is no sample.
C5_Witness ==
    /\ last.op = "Median"
    /\ Len(bins) = 0
    /\ Len(samples) = 2
    /\ last.ret \notin Elems(samples)
    /\ RLt(MinValue, last.ret)
    /\ RLt(last.ret, MaxValue)

\* C6: in binned mode Percentile(p), for every p, and Median() fail with
\* IllegalState and return nothing.
C6_OrderStatisticsFailWhenBinned ==
    (last.op \in {"Percentile", "Median"} /\ Len(bins) > 0) =>
        last.err = "IllegalState" /\ last.ret = "none"

\* Percentile called in binned mode after a later AddSample.
C6_Witness ==
    /\ last.op = "Percentile"
    /\ Len(bins) > 0
    /\ BinTotal > 0
    /\ last.err = "IllegalState"

\* C7: CreateBins(nbins, low, high) fails with InvalidArgument whenever
\* high <= low or nbins < 3, in either mode, and a failed call leaves bins,
\* binCounts, samples, count, sum, sum2, min and max as they were.
C7_CreateBinsRejects ==
    [][ last'.op = "CreateBins" =>
            /\ (RLe(last'.args[3], last'.args[2]) \/ last'.args[1] < 3) =>
                  last'.err = "InvalidArgument"
            /\ last'.err # "none" =>
                  /\ bins' = bins
                  /\ binCounts' = binCounts
                  /\ samples' = samples
                  /\ count' = count
                  /\ sum' = sum
                  /\ sum2' = sum2
                  /\ min' = min
                  /\ max' = max ]_vars

\* CreateBins(nbins, low, low) rejected in binned mode, the counted samples kept.
C7_Witness ==
    /\ last.op = "CreateBins"
    /\ last.args[2] = last.args[3]
    /\ last.args[1] >= 3
    /\ last.err = "InvalidArgument"
    /\ Len(bins) > 0
    /\ BinTotal > 0

\* C8: a successful CreateBins(nbins, low, high) leaves exactly nbins thresholds,
\* bins[i] = low + i*(high-low)/(nbins-2) for i in 0..nbins-2 (so bins[0] = low and
\* bins[nbins-2] = high), bins[nbins-1] = MaxFloat64, those at 0..nbins-2 strictly
\* ascending.
C8_Thresholds ==
    (last.op = "CreateBins" /\ last.err = "none") =>
        LET nbins == last.args[1]
            low == last.args[2]
            high == last.args[3]
        IN  /\ Len(bins) = nbins
            /\ \A i \in 0 .. nbins - 2 :
                  RMul(bins[i + 1], R(nbins - 2))
                      = RAdd(RMul(low, R(nbins - 2)), RMul(R(i), RSub(high, low)))
            /\ bins[1] = low
            /\ bins[nbins - 1] = high
            /\ bins[nbins] = MaxFloat64
            /\ \A i \in 1 .. nbins - 1 : \A j \in 1 .. nbins - 1 :
                  i < j => RLt(bins[i], bins[j])

\* CreateBins(4, 1, 2): the thresholds are 1, 3/2, 2, MaxFloat64.
C8_Witness ==
    /\ last.op = "CreateBins"
    /\ last.err = "none"
    /\ bins = <<R(1), Frac(3, 2), R(2), MaxFloat64>>

\* C9 (as claimed): CreateBinsDiscard(nbins, d) with d in (0,1] and fewer than
\* ceil(1/d) retained samples fails with IllegalState and does not switch the
\* accumulator to binned mode.
C9_FailsBelowCeiling ==
    [][ ( /\ last'.op = "CreateBinsDiscard"
          /\ RLt(R(0), last'.args[2])
          /\ RLe(last'.args[2], R(1))
          /\ Len(samples) < CeilInverse(last'.args[2]) ) =>
            /\ last'.err = "IllegalState"
            /\ bins' = bins ]_vars

\* C10: when the retained samples are at least int(1/d), CreateBinsDiscard(nbins, d)
\* ends as CreateBins(nbins, Percentile(d), Percentile(1-d)) does with both
\* percentiles taken of the samples retained before the call: the same bins,
\* binCounts and emptied samples on success, the same failure otherwise (then with
\* the same samples retained), and count, sum, sum2, min, max untouched.
C10_DiscardIsCreateBinsOfPercentiles ==
    [][ (last'.op = "CreateBinsDiscard" /\ Len(samples) >= MinSamples(last'.args[2])) =>
            LET nbins == last'.args[1]
                d == last'.args[2]
                lo == PercentileResult(samples, d)
                hi == PercentileResult(samples, RSub(R(1), d))
                cb == CreateBinsResult(samples, nbins, lo.ret, hi.ret)
                err == IF lo.err # "none" THEN lo.err
                       ELSE IF hi.err # "none" THEN hi.err
                       ELSE cb.err
            IN  /\ last'.err = err
                /\ err = "none" =>
                      /\ bins' = cb.bins
                      /\ binCounts' = cb.binCounts
                      /\ samples' = <<>>
                /\ err # "none" =>
                      /\ bins' = bins
                      /\ binCounts' = binCounts
                      /\ SameBag(samples', samples)
                /\ (lo.err = "none" /\ hi.err = "none") =>
                      (err # "none" <=> (RLe(hi.ret, lo.ret) \/ nbins < 3))
                /\ count' = count
                /\ sum' = sum
                /\ sum2' = sum2
                /\ min' = min
                /\ max' = max ]_vars

\* CreateBinsDiscard(4, 1/4) succeeding on four retained samples whose percentiles
\* 1/4 and 3/4 are 0 and 2.
C10_Witness ==
    /\ last.op = "CreateBinsDiscard"
    /\ last.args = <<4, Frac(1, 4)>>
    /\ last.err = "none"
    /\ bins = <<R(0), R(1), R(2), MaxFloat64>>
    /\ samples = <<>>
    /\ count = 4

\* ------------------------------------------- vocabulary of the later properties
RECURSIVE SumOf(_)
SumOf(s) == IF s = <<>> THEN R(0) ELSE RAdd(Head(s), SumOf(Tail(s)))
RECURSIVE SumSq(_)
SumSq(s) == IF s = <<>> THEN R(0) ELSE RAdd(RMul(Head(s), Head(s)), SumSq(Tail(s)))
\* The arithmetic mean of s and the mean of the squared deviations from it.
MeanOf(s) == RDiv(SumOf(s), R(Len(s)))
RECURSIVE SumSqDev(_, _)
SumSqDev(s, m) ==
    IF s = <<>> THEN R(0)
    ELSE RAdd(RMul(RSub(Head(s), m), RSub(Head(s), m)), SumSqDev(Tail(s), m))
PopulationVariance(s) == RDiv(SumSqDev(s, MeanOf(s)), R(Len(s)))
\* The fields the six aggregate queries compute their results from, and no other.
AggregateFields == <<count, sum, sum2, min, max>>

\* C11: in binned mode Bin(i) with 0 <= i < nbins returns count = binCounts[i],
\* high = bins[i], low = bins[i-1] (i > 0) or -MaxFloat64 (i = 0), so the low of
\* bin i is the high of bin i-1; for every other i, and for every i in exact
\* mode, it fails with IndexOutOfRange and returns nothing.
C11_Bin ==
    /\ Len(binCounts) = Len(bins)
    /\ \A i \in 1 .. Len(bins) - 1 :
          BinResult(i).ret.low = BinResult(i - 1).ret.high
    /\ last.op = "Bin" =>
          LET i == last.args[1]
          IN  IF Len(bins) > 0 /\ 0 <= i /\ i < Len(bins)
              THEN /\ last.err = "none"
                   /\ last.ret.count = binCounts[i + 1]
                   /\ last.ret.high = bins[i + 1]
                   /\ last.ret.low = IF i = 0 THEN NegMaxFloat64 ELSE bins[i]
              ELSE /\ last.err = "IndexOutOfRange"
                   /\ last.ret = "none"

\* Bin(1) returning a counted sample and the interval between two thresholds.
C11_Witness ==
    /\ last.op = "Bin"
    /\ last.args[1] = 1
    /\ last.err = "none"
    /\ last.ret.count > 0
    /\ RLt(last.ret.low, last.ret.high)

\* C12: sum is the sum and sum2 the sum of squares of every value passed to
\* AddSample, in either mode; with Count() > 0, Mean() is their arithmetic mean
\* and the square of Stddev() their population variance (the mean squared
\* deviation, divisor count).
C12_MeanAndStddev ==
    /\ sum = SumOf(added)
    /\ sum2 = SumSq(added)
    /\ count > 0 =>
          /\ MeanValue = MeanOf(added)
          /\ RMul(MeanValue, R(count)) = SumOf(added)
          /\ StddevValue = Sqrt(PopulationVariance(added))
          /\ last.op = "Mean" => last.ret = MeanOf(added)
          /\ last.op = "Stddev" => last.ret.sqrtOf = PopulationVariance(added)

\* Stddev() called in binned mode over samples added before and after the switch,
\* not all equal.
C12_Witness ==
    /\ last.op = "Stddev"
    /\ Len(bins) > 0
    /\ BinTotal > 0
    /\ BinTotal < count
    /\ RLt(R(0), last.ret.sqrtOf)

\* C13: Spread() = Max() - Min() in every state; each of Count, Min, Max, Mean,
\* Stddev and Spread returns the value computed from count, sum, sum2, min and
\* max alone, and a step that is no AddSample (a query, Percentile and Median
\* sorting the samples included, or a bin creation) leaves these five fields as
\* they were, so that a repeated query returns the same result.
C13_AggregatesStable ==
    [][ /\ SpreadValue = RSub(MaxValue, MinValue)
        /\ last'.op # "AddSample" => AggregateFields' = AggregateFields
        /\ last'.op = "Count" => last'.ret = CountValue
        /\ last'.op = "Min" => last'.ret = MinValue
        /\ last'.op = "Max" => last'.ret = MaxValue
        /\ last'.op = "Mean" => last'.ret = MeanValue
        /\ last'.op = "Stddev" => last'.ret = StddevValue
        /\ last'.op = "Spread" => last'.ret = SpreadValue ]_vars

\* Spread() of retained samples that differ.
C13_Witness ==
    /\ last.op = "Spread"
    /\ Len(bins) = 0
    /\ Len(samples) >= 3
    /\ RLt(R(0), last.ret)
    /\ last.ret = RSub(MaxValue, MinValue)

C15_OneWay ==
    [][ Len(bins) > 0 =>
            /\ Len(bins') > 0
            /\ samples = <<>>
            /\ samples' = <<>> ]_vars

\* A CreateBinsDiscard call that failed in binned mode, after a sample was added
\* there.
C15_Witness ==
    /\ last.op = "CreateBinsDiscard"
    /\ last.err # "none"
    /\ Len(bins) > 0
    /\ BinTotal > 0
    /\ samples = <<>>

C17_CreateBinsFrame ==
    [][ (last'.op = "CreateBins" /\ last'.err = "none") =>
            /\ count' = count
            /\ sum' = sum
            /\ sum2' = sum2
            /\ min' = min
            /\ max' = max
            /\ Len(binCounts') = last'.args[1]
            /\ \A i \in 1 .. Len(binCounts') : binCounts'[i] = 0
            /\ samples' = <<>> ]_vars

\* A successful CreateBins on an accumulator that holds samples that differ.
C17_Witness ==
    /\ last.op = "CreateBins"
    /\ last.err = "none"
    /\ count >= 2
    /\ RLt(MinValue, MaxValue)
    /\ BinTotal = 0
    /\ samples = <<>>

\* C18 (as claimed): after Percentile or Median has sorted the retained samples
\* the sorted flag of the accumulator is true; it stays true until the next
\* AddSample, which sets it back to false.
C18_SortedFlagCached ==
    [][ /\ (last'.op \in {"Percentile", "Median"} /\ last'.err = "none" /\ Len(samples') > 0) =>
              sorted' = TRUE
        /\ (sorted /\ last'.op # "AddSample") => sorted'
        /\ (last'.op = "AddSample" /\ Len(bins) = 0) => sorted' = FALSE ]_vars

\* C19: in every state either bins and binCounts are empty and samples holds,
\* as a multiset, exactly the Count() values added so far, or bins and binCounts
\* have the same length >= 3 and samples is empty.
C19_Representation ==
    \/ /\ Len(bins) = 0
       /\ Len(binCounts) = 0
       /\ Len(samples) = CountValue
       /\ SameBag(samples, added)
    \/ /\ Len(bins) >= 3
       /\ Len(binCounts) = Len(bins)
       /\ samples = <<>>

\* Binned mode with the fewest bins, holding samples from before and after the
\* switch.
C19_Witness ==
    /\ Len(bins) = 3
    /\ samples = <<>>
    /\ count = 4
    /\ BinTotal = 2

\* C20: a failing call of Percentile, Median, CreateBins, CreateBinsDiscard or
\* Bin leaves count, sum, sum2, min, max, bins, binCounts and the multiset of
\* retained samples as they were; a CreateBinsDiscard failing in the delegated
\* CreateBins leaves the accumulator in exact mode with its samples.
C20_FailedCallsChangeNothing ==
    [][ last'.err # "none" =>
            /\ count' = count
            /\ sum' = sum
            /\ sum2' = sum2
            /\ min' = min
            /\ max' = max
            /\ bins' = bins
            /\ binCounts' = binCounts
            /\ SameBag(samples', samples) ]_vars

\* CreateBinsDiscard(3, 1/2) on three retained samples: both percentiles are the
\* same sample, the delegated CreateBins fails, the accumulator stays exact.
C20_Witness ==
    /\ last.op = "CreateBinsDiscard"
    /\ last.args = <<3, Frac(1, 2)>>
    /\ last.err = "InvalidArgument"
    /\ Len(bins) = 0
    /\ Len(samples) = 3
    /\ RLt(MinValue, MaxValue)
====
